---------------------------- MODULE Spec2Model ----------------------------
(***************************************************************************)
(* A model of src/py/get_fit_data.py: Beam construction (Beam.set,        *)
(* Beam.set_nc), ground-scatter estimation (Beam.gs_estimation), Gate,     *)
(* Scan.update_time, the by-scan segmentation of FetchData._parse_data     *)
(* and the table bridge (convert_to_pandas, scans_to_pandas,               *)
(* pandas_to_beams, pandas_to_scans).                                      *)
(*                                                                         *)
(* A Python object is a function from attribute names to values; an        *)
(* attribute that was never assigned is outside the function's DOMAIN.     *)
(* A list or a numpy array is a sequence.  A datetime is a tick number.    *)
(* A raised exception is recorded in the variable err.                     *)
(***************************************************************************)
EXTENDS Integers, Sequences, FiniteSets, TLC

VARIABLES
    pc,       \* position of the caller: which call was made last
    data,     \* fetch_data: the raw records read so far
    _b,       \* _parse_data: the returned beam list
    _s,       \* _parse_data: the returned scan list
    err,      \* the exception the last call raised, or "none"
    src,      \* Beam: the raw input a beam is constructed from
    bm,       \* Beam: the beam object (Beam() has no attributes)
    gate,     \* Gate: the gate object built from bm
    beams,    \* convert_to_pandas: its argument
    scans,    \* scans_to_pandas: its argument
    df,       \* the table: column name -> list of row values
    out,      \* pandas_to_beams / pandas_to_scans: the returned list
    bmax      \* pandas_to_scans: the returned maximum beam count

segVars == <<data, _b, _s>>
beamVars == <<src, bm, gate>>
tblVars == <<beams, scans, df, out, bmax>>
vars == <<pc, err, data, _b, _s, src, bm, gate, beams, scans, df, out, bmax>>

(***************************************************************************)
(* Bounds of the model.                                                    *)
(***************************************************************************)
MaxRecs == 3        \* records read by fetch_data
MaxTime == 2        \* ticks 0 .. MaxTime
MaxGates == 2       \* range gates of one beam
MaxBeams == 2       \* beams handed to convert_to_pandas
MaxScanBeams == 4   \* beams, over all scans, handed to scans_to_pandas

(***************************************************************************)
(* Python values.                                                          *)
(***************************************************************************)
None == -1000       \* Python None (an absent scalar field, an unset bound)
NaN == -2000        \* numpy.nan, the missing sentinel

Times == 0 .. MaxTime
RawScans == {-1, 0, 7}      \* raw values of a record's "scan" field
TFreqs == <<10, 12>>        \* raw values of "tfreq", taken in turn

\* The requested window [start_date, end_date] of FetchData.__init__.
date_range == <<1, MaxTime>>

(***************************************************************************)
(* Sequence helpers (Python list operations).                              *)
(***************************************************************************)
RECURSIVE SumSeq(_)
SumSeq(s) == IF s = <<>> THEN 0 ELSE Head(s) + SumSeq(Tail(s))

MinOf(S) == CHOOSE x \in S : \A y \in S : x <= y
MaxOf(S) == CHOOSE x \in S : \A y \in S : y <= x

Range(s) == {s[i] : i \in 1 .. Len(s)}

\* numpy.mean of a non-empty list, kept exact as <<sum, count>>.
Mean(s) == <<SumSeq(s), Len(s)>>

\* [x] * l
Repeat(x, l) == [i \in 1 .. l |-> x]

(***************************************************************************)
(* Beam.set: scalars copied, "scan" normalised, vectors copied or [].      *)
(***************************************************************************)
ScanStored(raw) == IF raw # 0 THEN 1 ELSE raw

Beam_set(time, d, s_params, v_params) ==
    [p \in (Range(s_params) \cup Range(v_params) \cup {"time"}) |->
        IF p = "time" THEN time
        ELSE IF p \in Range(v_params)
             THEN (IF p \in DOMAIN d THEN d[p] ELSE <<>>)
             ELSE (IF p \in DOMAIN d
                   THEN (IF p = "scan" THEN ScanStored(d[p]) ELSE d[p])
                   ELSE None)]

(***************************************************************************)
(* Scan.__init__, Scan._populate_avg_params, Scan.update_time.             *)
(***************************************************************************)
Scan(stime, etime, s_mode) ==
    [stime |-> stime, etime |-> etime, s_mode |-> s_mode, beams |-> <<>>]

_populate_avg_params(sc) ==
    [a \in (DOMAIN sc \cup {"f", "nsky"}) |->
        IF a = "f" THEN Mean([i \in 1 .. Len(sc.beams) |-> sc.beams[i]["tfreq"]])
        ELSE IF a = "nsky"
             THEN Mean([i \in 1 .. Len(sc.beams) |-> sc.beams[i]["noise.sky"]])
             ELSE sc[a]]

update_time(sc) ==
    _populate_avg_params(
        [sc EXCEPT !.stime = MinOf({sc.beams[i]["time"] : i \in 1 .. Len(sc.beams)}),
                   !.etime = MaxOf({sc.beams[i]["time"] : i \in 1 .. Len(sc.beams)})])

Append_beam(sc, b) == [sc EXCEPT !.beams = Append(@, b)]

(***************************************************************************)
(* FetchData._parse_data.                                                  *)
(***************************************************************************)
\* lines 203-208: one Beam per record whose time lies in the window.
RECURSIVE ToBeams(_, _, _)
ToBeams(recs, s_params, v_params) ==
    IF recs = <<>> THEN <<>>
    ELSE LET d == Head(recs)
             rest == ToBeams(Tail(recs), s_params, v_params)
         IN IF d["time"] >= date_range[1] /\ d["time"] <= date_range[2]
            THEN <<Beam_set(d["time"], d, s_params, v_params)>> \o rest
            ELSE rest

\* A faulty variant of NewScan: the boundary flag alone splits.
NewScanFlagOnly(b, i) == b[i]["scan"] = 1

\* line 215: does beam b[i] (1-based, i >= 2) close the open scan?
NewScan(b, i) == b[i]["scan"] = 1 /\ b[i]["time"] # b[i - 1]["time"]

\* A faulty variant of KeepOpen: the beam that opens no new scan is dropped.
KeepOpenDrop(sc, d) == sc

\* line 220: the beam joins the open scan.
KeepOpen(sc, d) == Append_beam(sc, d)

\* lines 212-213 and 218-219: a new open scan holding beam d.
StartScan(s_mode, d) == Append_beam(Scan(None, None, s_mode), d)

\* lines 214-220: the loop over _b[1:], from position i with the scans
\* closed so far (s) and the open scan (sc).
RECURSIVE SegLoop(_, _, _, _, _)
SegLoop(b, i, s, sc, s_mode) ==
    IF i > Len(b) THEN <<s, sc>>
    ELSE IF NewScan(b, i)
         THEN SegLoop(b, i + 1, Append(s, update_time(sc)),
                      StartScan(s_mode, b[i]), s_mode)
         ELSE SegLoop(b, i + 1, s, KeepOpen(sc, b[i]), s_mode)

\* lines 212-221 for a non-empty beam list: the last scan is appended as it is.
by_scan(b, s_mode) ==
    LET r == SegLoop(b, 2, <<>>, StartScan(s_mode, b[1]), s_mode)
    IN Append(r[1], r[2])

SParams == <<"bmnum", "noise.sky", "tfreq", "scan">>
VParams == <<"v", "slist">>

(***************************************************************************)
(* fetch_data: read records, then parse them by beam or by scan.           *)
(***************************************************************************)
\* A record carries its time and its raw scan flag, both free; its tfreq
\* alternates, its noise.sky is fixed, and its bmnum is its position in the
\* input, which tells every beam from the others.
ReadRecord ==
    /\ pc = "reading"
    /\ Len(data) < MaxRecs
    /\ \E t \in Times, sc \in RawScans :
          data' = Append(data,
                    [p \in {"time", "scan", "tfreq", "noise.sky", "bmnum"} |->
                        CASE p = "time" -> t
                          [] p = "scan" -> sc
                          [] p = "tfreq" -> TFreqs[1 + (Len(data) % 2)]
                          [] p = "noise.sky" -> 5
                          [] OTHER -> Len(data)])
    /\ UNCHANGED <<pc, _b, _s, err, beamVars, tblVars>>

ParseByBeam ==
    /\ pc = "reading"
    /\ pc' = "by_beam"
    /\ _b' = ToBeams(data, SParams, VParams)
    /\ _s' = <<>>
    /\ err' = "none"
    /\ UNCHANGED <<data, beamVars, tblVars>>

ParseByScan ==
    /\ pc = "reading"
    /\ pc' = "by_scan"
    /\ LET b == ToBeams(data, SParams, VParams)
       IN IF b = <<>>
          THEN /\ err' = "IndexError"       \* line 213: _b[0] of an empty list
               /\ _b' = <<>>
               /\ _s' = <<>>
          ELSE /\ err' = "none"
               /\ _b' = b
               /\ _s' = by_scan(b, "normal")
    /\ UNCHANGED <<data, beamVars, tblVars>>

\* The variables of the other specifications, at rest.
SegIdle == data = <<>> /\ _b = <<>> /\ _s = <<>>
BeamIdle == src = <<>> /\ bm = <<>> /\ gate = <<>>
TblIdle == beams = <<>> /\ scans = <<>> /\ df = <<>> /\ out = <<>> /\ bmax = 0

InitSeg ==
    /\ pc = "reading"
    /\ err = "none"
    /\ SegIdle
    /\ BeamIdle
    /\ TblIdle

NextSeg == ReadRecord \/ ParseByBeam \/ ParseByScan

SpecSeg == InitSeg /\ [][NextSeg]_vars

(***************************************************************************)
(* Beam.set_nc: the columnar construction path.  Row index i is 0-based.   *)
(***************************************************************************)
RECURSIVE SortSet(_)
SortSet(S) == IF S = {} THEN <<>> ELSE <<MinOf(S)>> \o SortSet(S \ {MinOf(S)})

\* a[~np.isnan(a)]
FilterNaN(a) == SelectSeq(a, LAMBDA x : x # NaN)

\* np.argwhere(~np.isnan(a)): the 0-based positions of the entries that are set
ArgWhereNotNaN(a) ==
    LET pos == SortSet({j \in 1 .. Len(a) : a[j] # NaN})
    IN [k \in 1 .. Len(pos) |-> pos[k] - 1]

Beam_set_nc(time, d, i, s_params, v_params) ==
    LET derive == "slist" \notin Range(v_params) /\ "v" \in Range(v_params)
                    /\ "v" \in DOMAIN d
    IN [p \in (Range(s_params) \cup Range(v_params) \cup {"time"}
                \cup (IF derive THEN {"slist"} ELSE {})) |->
        IF p = "time" THEN time
        ELSE IF p \in Range(v_params)
             THEN (IF p \in DOMAIN d THEN FilterNaN(d[p][i + 1]) ELSE <<>>)
             ELSE IF p \in Range(s_params)
                  THEN (IF p \in DOMAIN d THEN d[p][i + 1] ELSE None)
                  ELSE ArgWhereNotNaN(d["v"][i + 1])]

(***************************************************************************)
(* Beam.gs_estimation.  The four criteria, over integers.                  *)
(***************************************************************************)
Abs(x) == IF x < 0 THEN -x ELSE x

\* A comparison with nan is False.
Criterion(k, v, w) ==
    IF v = NaN \/ w = NaN THEN FALSE
    ELSE CASE k = 0 -> 3 * Abs(v) + w < 90                      \* |v| + w/3 < 30
           [] k = 1 -> 5 * Abs(v) + 2 * w < 300                 \* |v| + 0.4w < 60
           [] k = 2 -> 100000 * Abs(v) - 13900 * w + 113 * w * w < 3310000
           [] OTHER -> 10 * w - (500 - 7 * (v + 5) * (v + 5)) < 0

\* numpy broadcasting of two 1-d arrays: the common length, or -1 (ValueError).
BroadcastLen(a, b) ==
    IF a = b THEN a ELSE IF a = 1 THEN b ELSE IF b = 1 THEN a ELSE -1

At(a, j) == IF Len(a) = 1 THEN a[1] ELSE a[j]

\* The keys gs_estimation assigns: 0, 1, 2 under the guard of lines 101-103,
\* 3 always (line 105); none when the arithmetic raises.
GsKeys(b) ==
    IF BroadcastLen(Len(b["v"]), Len(b["w_l"])) < 0 THEN {}
    ELSE (IF Len(b["v"]) > 0 /\ Len(b["w_l"]) > 0 THEN {0, 1, 2} ELSE {}) \cup {3}

gs_estimation(b) ==
    LET n == BroadcastLen(Len(b["v"]), Len(b["w_l"]))
        flags(k) == [j \in 1 .. n |->
                        IF Criterion(k, At(b["v"], j), At(b["w_l"], j)) THEN 1 ELSE 0]
    IN [err |-> IF n < 0 THEN "ValueError" ELSE "none",
        bm |-> [a \in (DOMAIN b \cup {"gsflg"}) |->
                   IF a = "gsflg" THEN [k \in GsKeys(b) |-> flags(k)] ELSE b[a]]]

(***************************************************************************)
(* Gate.__init__.  Index i is 0-based.                                     *)
(***************************************************************************)
Gate_init(b, i, params, gflg_type) ==
    LET g == [p \in Range(params) |-> IF Len(b[p]) > i THEN b[p][i + 1] ELSE NaN]
        withFlag == [p \in (Range(params) \cup {"gflg"}) |->
                        IF p = "gflg" THEN b["gsflg"][gflg_type][i + 1] ELSE g[p]]
    IN IF gflg_type < 0 THEN [err |-> "none", gate |-> g]
       ELSE IF "gsflg" \notin DOMAIN b THEN [err |-> "AttributeError", gate |-> <<>>]
       ELSE IF gflg_type \notin DOMAIN b["gsflg"] THEN [err |-> "KeyError", gate |-> <<>>]
       ELSE IF Len(b["gsflg"][gflg_type]) = 0 THEN [err |-> "none", gate |-> g]
       ELSE IF i >= Len(b["gsflg"][gflg_type]) THEN [err |-> "IndexError", gate |-> <<>>]
       ELSE [err |-> "none", gate |-> withFlag]

(***************************************************************************)
(* A beam's life: constructed by either path, then classified, then read   *)
(* gate by gate.                                                           *)
(***************************************************************************)
VVals == {0, 2000}          \* velocities
WVals == {0, 100}           \* spectral widths
BeamSParams == <<"bmnum", "scan">>
BeamVParams == <<"v", "w_l", "slist">>
GateParams == <<"v", "w_l">>

\* A raw record of the record-list path: n gates; "scan" and "w_l" may be absent.
RecD(sc, vw, hasW) ==
    [p \in ({"bmnum", "v", "slist"} \cup (IF sc = None THEN {} ELSE {"scan"})
                                    \cup (IF hasW THEN {"w_l"} ELSE {})) |->
        CASE p = "bmnum" -> 3
          [] p = "scan" -> sc
          [] p = "v" -> [j \in 1 .. Len(vw) |-> vw[j][1]]
          [] p = "w_l" -> [j \in 1 .. Len(vw) |-> vw[j][2]]
          [] OTHER -> [j \in 1 .. Len(vw) |-> 2 * j]]

RecInputs ==
    {[kind |-> "rec", time |-> 1, d |-> RecD(sc, vw, hasW)] :
        sc \in RawScans \cup {None},
        vw \in UNION {[1 .. n -> VVals \X WVals] : n \in 0 .. MaxGates},
        hasW \in BOOLEAN}

\* A columnar record set of two rows: row i holds the drawn cells (nan where a
\* gate has no data), the other row is all nan with scan 0.
Cells == {<<NaN, NaN>>} \cup (VVals \X WVals)

NcD(i, sc, cells) ==
    LET row(p) == [j \in 1 .. MaxGates |->
                      CASE p = "v" -> cells[j][1]
                        [] p = "w_l" -> cells[j][2]
                        [] OTHER -> IF cells[j][1] = NaN THEN NaN ELSE j - 1]
        blank == [j \in 1 .. MaxGates |-> NaN]
    IN [p \in {"bmnum", "scan", "v", "w_l", "slist"} |->
          CASE p = "bmnum" -> [r \in 1 .. 2 |-> IF r = i + 1 THEN 3 ELSE 0]
            [] p = "scan" -> [r \in 1 .. 2 |-> IF r = i + 1 THEN sc ELSE 0]
            [] OTHER -> [r \in 1 .. 2 |-> IF r = i + 1 THEN row(p) ELSE blank]]

NcInputs ==
    {[kind |-> "nc", time |-> 1, i |-> i, v_params |-> vp, d |-> NcD(i, sc, cells)] :
        i \in 0 .. 1, sc \in RawScans, cells \in [1 .. MaxGates -> Cells],
        vp \in {<<"v", "w_l">>, BeamVParams}}

Set ==
    /\ pc = "new"
    /\ src.kind = "rec"
    /\ bm' = Beam_set(src.time, src.d, BeamSParams, BeamVParams)
    /\ pc' = "set"
    /\ UNCHANGED <<err, src, gate, segVars, tblVars>>

SetNc ==
    /\ pc = "new"
    /\ src.kind = "nc"
    /\ bm' = Beam_set_nc(src.time, src.d, src.i, BeamSParams, src.v_params)
    /\ pc' = "set_nc"
    /\ UNCHANGED <<err, src, gate, segVars, tblVars>>

GsEstimation ==
    /\ pc \in {"set", "set_nc"}
    /\ bm' = gs_estimation(bm).bm
    /\ err' = gs_estimation(bm).err
    /\ pc' = "gs"
    /\ UNCHANGED <<src, gate, segVars, tblVars>>

MakeGate ==
    /\ pc \in {"set", "set_nc", "gs"}
    /\ err = "none"
    /\ \E i \in 0 .. MaxGates - 1, gflg_type \in -1 .. 3 :
          /\ gate' = Gate_init(bm, i, GateParams, gflg_type).gate
          /\ err' = Gate_init(bm, i, GateParams, gflg_type).err
    /\ pc' = "gate"
    /\ UNCHANGED <<src, bm, segVars, tblVars>>

InitBeam ==
    /\ pc = "new"
    /\ err = "none"
    /\ src \in RecInputs \cup NcInputs
    /\ bm = <<>>
    /\ gate = <<>>
    /\ SegIdle
    /\ TblIdle

NextBeam == Set \/ SetNc \/ GsEstimation \/ MakeGate

SpecBeam == InitBeam /\ [][NextBeam]_vars

(***************************************************************************)
(* The table: convert_to_pandas and scans_to_pandas.                       *)
(***************************************************************************)
\* A faulty variant of Pad: one padding entry too few.
PadShort(o, cols) ==
    LET L == Len(o["slist"])
    IN [p \in DOMAIN o |->
          IF p \in cols /\ Len(o[p]) < L
          THEN o[p] \o Repeat(NaN, L - Len(o[p]) - 1) ELSE o[p]]

\* lines 237-241 and 260-264: every column shorter than slist's is extended
\* with nan to slist's length.
Pad(o, cols) ==
    LET L == Len(o["slist"])
    IN [p \in DOMAIN o |->
          IF p \in cols /\ Len(o[p]) < L
          THEN o[p] \o Repeat(NaN, L - Len(o[p])) ELSE o[p]]

\* lines 232-236 and 253-259: one beam's values appended to the columns.
\* extra maps the columns of new_cols (scnum, sbnum) to this beam's value.
ExtendBeam(o, b, s_params, v_params, extra) ==
    LET l == Len(b["slist"])
    IN [p \in DOMAIN o |->
          IF p \in Range(v_params) THEN o[p] \o b[p]
          ELSE IF p \in Range(s_params) THEN o[p] \o Repeat(b[p], l)
          ELSE o[p] \o Repeat(extra[p], l)]

RECURSIVE ExtendBeams(_, _, _, _)
ExtendBeams(o, bs, s_params, v_params) ==
    IF bs = <<>> THEN o
    ELSE ExtendBeams(ExtendBeam(o, Head(bs), s_params, v_params, <<>>),
                     Tail(bs), s_params, v_params)

convert_to_pandas(bs, s_params, v_params) ==
    Pad(ExtendBeams([p \in Range(s_params) \cup Range(v_params) |-> <<>>],
                    bs, s_params, v_params),
        Range(s_params) \cup Range(v_params))

\* lines 252-259: the beams of scan number scnum, from beam idh (0-based) on.
RECURSIVE ExtendScanBeams(_, _, _, _, _, _)
ExtendScanBeams(o, bs, idh, scnum, s_params, v_params) ==
    IF bs = <<>> THEN o
    ELSE ExtendScanBeams(
             ExtendBeam(o, Head(bs), s_params, v_params,
                        [c \in {"scnum", "sbnum"} |-> IF c = "scnum" THEN scnum ELSE idh]),
             Tail(bs), idh + 1, scnum, s_params, v_params)

\* lines 251-264: the scans from scan idn (0-based) on; the columns are padded
\* after each scan.
RECURSIVE ExtendScans(_, _, _, _, _, _)
ExtendScans(o, ss, idn, s_params, v_params, start) ==
    IF ss = <<>> THEN o
    ELSE ExtendScans(
             Pad(ExtendScanBeams(o, Head(ss).beams, 0, idn + start,
                                 s_params, v_params),
                 DOMAIN o),
             Tail(ss), idn + 1, s_params, v_params, start)

scans_to_pandas(ss, s_params, v_params, start) ==
    ExtendScans([p \in Range(s_params) \cup Range(v_params) \cup {"scnum", "sbnum"} |-> <<>>],
                ss, 0, s_params, v_params, start)

(***************************************************************************)
(* The table read back: pandas_to_beams and pandas_to_scans.               *)
(***************************************************************************)
\* df[df.col == x]: the rows whose column col holds x, in order.
RowsWhere(t, col, x) ==
    LET idx == SortSet({k \in 1 .. Len(t[col]) : t[col][k] = x})
    IN [p \in DOMAIN t |-> [k \in 1 .. Len(idx) |-> t[p][idx[k]]]]

\* np.unique(column): the distinct values, ascending.
Unique(col) == SortSet(Range(col))

\* lines 274-279: the beam of one group of rows.
GroupBeam(o, s_params, v_params) ==
    Beam_set(o["time"][1],
             [p \in DOMAIN o |-> IF p \in Range(s_params) THEN o[p][1] ELSE o[p]],
             s_params, v_params)

pandas_to_beams(t, s_params, v_params) ==
    LET u == Unique(t["bmnum"])
    IN [k \in 1 .. Len(u) |-> GroupBeam(RowsWhere(t, "bmnum", u[k]), s_params, v_params)]

RECURSIVE SubBeams(_, _, _, _)
SubBeams(o, bns, s_params, v_params) ==
    IF bns = <<>> THEN <<>>
    ELSE pandas_to_beams(RowsWhere(o, "sbnum", Head(bns)), s_params, v_params)
            \o SubBeams(o, Tail(bns), s_params, v_params)

\* lines 290-301: one closed scan per scan number, ascending.
ReconstructScans(t, smode, s_params, v_params) ==
    LET sns == Unique(t["scnum"])
    IN [k \in 1 .. Len(sns) |->
          LET o == RowsWhere(t, "scnum", sns[k])
          IN update_time([Scan(None, None, smode) EXCEPT
                 !.beams = SubBeams(o, Unique(o["sbnum"]), s_params, v_params)])]

\* A faulty variant of MergeHeuristic: the merged scan is followed by the scans from the
\* second on (range(1, len(scans))).
MergeHeuristicFromSecond(ss) ==
    IF Len(ss[1].beams) + Len(ss[2].beams) = Len(ss[3].beams)
    THEN <<update_time([Scan(None, None, ss[1].s_mode) EXCEPT
                           !.beams = ss[1].beams \o ss[2].beams])>>
            \o SubSeq(ss, 2, Len(ss))
    ELSE ss

\* lines 302-311, for three scans or more.
MergeHeuristic(ss) ==
    IF Len(ss[1].beams) + Len(ss[2].beams) = Len(ss[3].beams)
    THEN <<update_time([Scan(None, None, ss[1].s_mode) EXCEPT
                           !.beams = ss[1].beams \o ss[2].beams])>>
            \o SubSeq(ss, 3, Len(ss))
    ELSE ss

\* line 297
BMax(ss) == IF ss = <<>> THEN 0 ELSE MaxOf({Len(ss[k].beams) : k \in 1 .. Len(ss)})

pandas_to_scans(t, smode, s_params, v_params) ==
    IF "scnum" \notin DOMAIN t
    THEN [err |-> "AttributeError", scans |-> <<>>, bmax |-> 0]    \* line 290
    ELSE LET r == ReconstructScans(t, smode, s_params, v_params)
         IN IF Len(r) < 3
            THEN [err |-> "IndexError", scans |-> <<>>, bmax |-> 0]   \* line 303
            ELSE [err |-> "none", scans |-> MergeHeuristic(r), bmax |-> BMax(r)]

(***************************************************************************)
(* The table bridge in use: a list of beams or of scans is flattened, and  *)
(* the table is read back as beams or as scans.                            *)
(***************************************************************************)
TblSParams == <<"bmnum", "noise.sky", "tfreq", "scan", "time">>
TblVParams == <<"v", "slist">>
BmNums == {0, 1}
start_scnum == 0            \* the default of scans_to_pandas

\* The beam at position k (its time) with beam number bmnum and n gates; its
\* "v" is empty (the field was absent) or holds one value per gate.
TblBeam(bmnum, k, n, hasV) ==
    [p \in Range(TblSParams) \cup Range(TblVParams) |->
        CASE p = "bmnum" -> bmnum
          [] p = "noise.sky" -> 5
          [] p = "tfreq" -> 10
          [] p = "scan" -> IF bmnum = 0 THEN 1 ELSE 0
          [] p = "time" -> k
          [] p = "slist" -> [j \in 1 .. n |-> 2 * j]
          [] OTHER -> IF hasV THEN [j \in 1 .. n |-> 100 * k + 10 * bmnum + j] ELSE <<>>]

Shapes == {<<0, FALSE>>} \cup ((1 .. MaxGates) \X BOOLEAN)

BeamSeqs ==
    UNION {{[k \in 1 .. len |-> TblBeam(c[k][1], k, c[k][2][1], c[k][2][2])] :
               c \in [1 .. len -> BmNums \X Shapes]} : len \in 0 .. MaxBeams}

\* Scans: n beams in time order, cut into consecutive scans before the
\* positions of cuts; a beam's number is its place in its scan; beam k has
\* no gates ("none"), or 1 + (k - 1) % MaxGates gates with "v" ("full") or
\* without it ("no_v").
ScanOf(n, cuts, kind, first) ==
    LET last == IF {c \in cuts : c > first} = {} THEN n
                ELSE MinOf({c \in cuts : c > first}) - 1
    IN update_time([Scan(None, None, "normal") EXCEPT
          !.beams = [j \in 1 .. last - first + 1 |->
                       TblBeam(j - 1, first + j - 1,
                               IF kind[first + j - 1] = "none" THEN 0
                               ELSE 1 + ((first + j - 2) % MaxGates),
                               kind[first + j - 1] = "full")]])

ScansOf(n, cuts, kind) ==
    LET firsts == SortSet({1} \cup cuts)
    IN [k \in 1 .. Len(firsts) |-> ScanOf(n, cuts, kind, firsts[k])]

ScanSeqs ==
    {<<>>} \cup
    UNION {{ScansOf(n, cuts, kind) :
               cuts \in SUBSET (2 .. n), kind \in [1 .. n -> {"none", "full", "no_v"}]} :
           n \in 1 .. MaxScanBeams}

ConvertToPandas ==
    /\ pc = "have_beams"
    /\ df' = convert_to_pandas(beams, TblSParams, TblVParams)
    /\ pc' = "df_beams"
    /\ UNCHANGED <<err, beams, scans, out, bmax, segVars, beamVars>>

ScansToPandas ==
    /\ pc = "have_scans"
    /\ df' = scans_to_pandas(scans, TblSParams, TblVParams, start_scnum)
    /\ pc' = "df_scans"
    /\ UNCHANGED <<err, beams, scans, out, bmax, segVars, beamVars>>

PandasToBeams ==
    /\ pc \in {"df_beams", "df_scans"}
    /\ out' = pandas_to_beams(df, TblSParams, TblVParams)
    /\ pc' = "to_beams"
    /\ UNCHANGED <<err, beams, scans, df, bmax, segVars, beamVars>>

PandasToScans ==
    /\ pc \in {"df_beams", "df_scans"}
    /\ LET r == pandas_to_scans(df, "normal", TblSParams, TblVParams)
       IN /\ out' = r.scans
          /\ bmax' = r.bmax
          /\ err' = r.err
    /\ pc' = "to_scans"
    /\ UNCHANGED <<beams, scans, df, segVars, beamVars>>

InitTable ==
    /\ err = "none"
    /\ \/ pc = "have_beams" /\ beams \in BeamSeqs /\ scans = <<>>
       \/ pc = "have_scans" /\ beams = <<>> /\ scans \in ScanSeqs
    /\ df = <<>>
    /\ out = <<>>
    /\ bmax = 0
    /\ SegIdle
    /\ BeamIdle

NextTable == ConvertToPandas \/ ScansToPandas \/ PandasToBeams \/ PandasToScans

SpecTable == InitTable /\ [][NextTable]_vars

(***************************************************************************)
(* Claims about the by-scan segmentation (SpecSeg).                        *)
(***************************************************************************)
RECURSIVE ConcatBeams(_)
ConcatBeams(ss) ==
    IF ss = <<>> THEN <<>> ELSE Head(ss).beams \o ConcatBeams(Tail(ss))

\* Positions, in the concatenation of the scans' beams, of each scan's first beam.
RECURSIVE Starts(_, _)
Starts(ss, off) ==
    IF ss = <<>> THEN {}
    ELSE {off + 1} \cup Starts(Tail(ss), off + Len(Head(ss).beams))

Segmented == pc = "by_scan" /\ err = "none"

\* C1: the returned scans partition the accepted beams: concatenated in scan
\* order they give back the accepted beam sequence, every accepted beam lies in
\* exactly one scan, and no returned scan is empty.
C1_ScansPartitionBeams ==
    Segmented =>
        /\ _b = ToBeams(data, SParams, VParams)
        /\ ConcatBeams(_s) = _b
        /\ \A k \in 1 .. Len(_s) : _s[k].beams # <<>>
        /\ \A i \in 1 .. Len(_b) :
              Cardinality({kj \in {<<k, j>> : k \in 1 .. Len(_s), j \in 1 .. MaxRecs + 1} :
                              /\ kj[2] <= Len(_s[kj[1]].beams)
                              /\ _s[kj[1]].beams[kj[2]] = _b[i]}) = 1

C1_Witness == Segmented /\ Len(_s) >= 2 /\ Len(_b) >= 3

\* A closed scan: stime is the minimum and etime the maximum of its beams'
\* times, and the mean frequency f and mean sky noise nsky are set.
Closed(sc) ==
    /\ sc.stime = MinOf({sc.beams[i]["time"] : i \in 1 .. Len(sc.beams)})
    /\ sc.etime = MaxOf({sc.beams[i]["time"] : i \in 1 .. Len(sc.beams)})
    /\ {"f", "nsky"} \subseteq DOMAIN sc

\* C2: every returned scan, the last one included, is closed.
C2_EveryReturnedScanClosed ==
    Segmented => \A k \in 1 .. Len(_s) : Closed(_s[k])

\* What the code does instead: every returned scan but the last is closed, and
\* the last is returned open (stime and etime None, no f, no nsky).
LastScanReturnedOpen ==
    Segmented =>
        /\ \A k \in 1 .. Len(_s) - 1 : Closed(_s[k])
        /\ _s[Len(_s)].stime = None
        /\ _s[Len(_s)].etime = None
        /\ DOMAIN _s[Len(_s)] \cap {"f", "nsky"} = {}

\* C5: an empty accepted beam sequence is rejected by a guard with an explicit
\* empty-input error; the first element of the empty list is never indexed.
C5_EmptyInputRejectedByGuard ==
    (pc = "by_scan" /\ ToBeams(data, SParams, VParams) = <<>>) =>
        err = "EmptyInputError"

\* C10: beam b(i), i >= 1, is the first beam of a returned scan exactly when
\* its stored boundary flag is 1 and its time differs from its predecessor's;
\* b0 is the first beam of the first scan.
C10_SplitIffFlagAndTimeChange ==
    Segmented =>
        /\ 1 \in Starts(_s, 0)
        /\ \A i \in 2 .. Len(_b) :
              (i \in Starts(_s, 0)) <=>
                  (_b[i]["scan"] = 1 /\ _b[i]["time"] # _b[i - 1]["time"])

C10_Witness ==
    /\ Segmented
    /\ \E i \in 2 .. Len(_b) :
          _b[i]["scan"] = 1 /\ _b[i]["time"] = _b[i - 1]["time"]
    /\ \E i \in 2 .. Len(_b) : i \in Starts(_s, 0)

(***************************************************************************)
(* Claims about beam construction and classification (SpecBeam).           *)
(***************************************************************************)
\* The raw scan value the beam was constructed from.
RawScan == IF src.kind = "rec" THEN src.d["scan"] ELSE src.d["scan"][src.i + 1]

\* C7: a beam constructed by either path from a raw record that has a scan
\* field stores 0 for raw 0 and exactly 1 for every other raw value.
C7_ScanFieldNormalised ==
    (pc \in {"set", "set_nc"} /\ "scan" \in DOMAIN src.d) =>
        /\ bm["scan"] \in {0, 1}
        /\ (RawScan = 0) => (bm["scan"] = 0)
        /\ (RawScan # 0) => (bm["scan"] = 1)

\* What the code does instead: Beam.set normalises, Beam.set_nc stores the raw
\* value as it is.
ScanFieldAsStored ==
    (pc \in {"set", "set_nc"} /\ "scan" \in DOMAIN src.d) =>
        bm["scan"] = IF pc = "set" THEN (IF RawScan = 0 THEN 0 ELSE 1) ELSE RawScan

\* C8: after gs_estimation the beam's gsflg holds keys 0, 1, 2 and 3, each a
\* sequence as long as v, so that a Gate built with gflg_type in 0..3 never
\* fails on a missing key.
C8_AllFourVariantsCached ==
    ("gsflg" \in DOMAIN bm /\ Len(bm["v"]) = Len(bm["w_l"])) =>
        /\ DOMAIN bm["gsflg"] = 0 .. 3
        /\ \A k \in 0 .. 3 : Len(bm["gsflg"][k]) = Len(bm["v"])
        /\ ~(pc = "gate" /\ err = "KeyError")

\* What the code does instead, on a beam whose v and w_l are equally long: a
\* beam with gates gets all four keys, a beam without gates only key 3.
GsKeysAsComputed ==
    ("gsflg" \in DOMAIN bm /\ Len(bm["v"]) = Len(bm["w_l"])) =>
        /\ DOMAIN bm["gsflg"] = IF Len(bm["v"]) > 0 THEN 0 .. 3 ELSE {3}
        /\ \A k \in DOMAIN bm["gsflg"] : Len(bm["gsflg"][k]) = Len(bm["v"])

(***************************************************************************)
(* Claims about the table bridge (SpecTable).                              *)
(***************************************************************************)
\* g is b read back: the same scalars, and each vector field b's own followed
\* by nothing but nan.
ReadBack(b, g) ==
    /\ \A p \in Range(TblSParams) : g[p] = b[p]
    /\ \A p \in Range(TblVParams) :
          /\ Len(g[p]) >= Len(b[p])
          /\ SubSeq(g[p], 1, Len(b[p])) = b[p]
          /\ \A j \in Len(b[p]) + 1 .. Len(g[p]) : g[p][j] = NaN

\* C3: pandas_to_beams(convert_to_pandas(B)) returns one beam per beam of B,
\* each with B's scalar fields and vector contents, padded only with nan.
C3_RoundTrip ==
    (pc = "to_beams" /\ df = convert_to_pandas(beams, TblSParams, TblVParams)) =>
        /\ Len(out) = Len(beams)
        /\ \A i \in 1 .. Len(beams) : \E j \in 1 .. Len(out) : ReadBack(beams[i], out[j])

\* The beams the table was collected from.
InputBeams == IF pc = "df_beams" THEN beams ELSE ConcatBeams(scans)

\* Every vector field of b is empty or as long as b's gate-index list.
Conformant(b) ==
    \A p \in Range(TblVParams) : b[p] = <<>> \/ Len(b[p]) = Len(b["slist"])

TotalGates(bs) == SumSeq([k \in 1 .. Len(bs) |-> Len(bs[k]["slist"])])

\* The values of column p the beams supply, in order.
RECURSIVE Collected(_, _)
Collected(p, bs) ==
    IF bs = <<>> THEN <<>>
    ELSE (IF p \in Range(TblVParams) THEN Head(bs)[p]
          ELSE Repeat(Head(bs)[p], Len(Head(bs)["slist"])))
         \o Collected(p, Tail(bs))

\* C9: every column of the table has as many rows as there are gates over all
\* beams, and every entry added to a column to reach that count is nan: without
\* its nan entries a column is exactly what the beams supplied.
C9_ColumnsEquallyLong ==
    pc \in {"df_beams", "df_scans"} =>
        LET bs == InputBeams
        IN (\A k \in 1 .. Len(bs) : Conformant(bs[k])) =>
              \A p \in DOMAIN df :
                  /\ Len(df[p]) = TotalGates(bs)
                  /\ p \in Range(TblSParams) \cup Range(TblVParams) =>
                         FilterNaN(df[p]) = Collected(p, bs)
                  /\ p \in {"scnum", "sbnum"} => FilterNaN(df[p]) = df[p]

C9_Witness ==
    /\ pc = "df_scans"
    /\ Len(scans) >= 2
    /\ NaN \in Range(df["v"])
    /\ \E x \in Range(df["v"]) : x # NaN
    /\ \E k \in 1 .. Len(df["v"]) - 1 : df["v"][k] = NaN /\ df["v"][k + 1] # NaN

\* The scans reconstructed from the table, before the merge heuristic.
Reconstructed == ReconstructScans(df, "normal", TblSParams, TblVParams)

C4_WitnessNoMerge ==
    /\ pc = "to_scans"
    /\ "scnum" \in DOMAIN df
    /\ LET s == Reconstructed
       IN Len(s) >= 4 /\ out = s

\* C6: with fewer than three reconstructed scans the call returns them
\* unchanged, with the maximum beam count, and raises nothing.
C6_FewScansNoOp ==
    (pc = "to_scans" /\ "scnum" \in DOMAIN df) =>
        LET s == Reconstructed
        IN Len(s) < 3 =>
              /\ err = "none"
              /\ out = s
              /\ bmax = BMax(s)

=============================================================================
